---- MODULE Spec2Model ----
(***************************************************************************)
(* Cabana sorting and binning of an AoSoA (core/src/Cabana_Sort.hpp).      *)
(*                                                                         *)
(* The collection is a function from member index to a column; a column is *)
(* a function from particle index (0-based, as in the source) to a value.  *)
(* Every public operation of Cabana_Sort.hpp is one action, the whole call *)
(* from entry to return.                                                   *)
(*                                                                         *)
(* Cabana_Sort.hpp builds on Kokkos::BinSort, Kokkos::BinOp1D and          *)
(* Kokkos::BinOp3D (Kokkos_Sort.hpp).  They are modelled as the calls in   *)
(* Cabana_Sort.hpp use them:                                               *)
(*   - BinOp1D(nbin, min, max) has nbin + 1 bins and puts key k in bin     *)
(*     int(nbin/(max-min) * (k-min)), without clamping (the largest key is *)
(*     alone in bin nbin; tstSort.hpp expects numBin() == nbin + 1);       *)
(*   - BinOp3D(nbin, min, max) has nbin[0]*nbin[1]*nbin[2] bins, the first *)
(*     axis slowest;                                                       *)
(*   - BinSort counts the bins, scans the counts into offsets counted from *)
(*     the start of the range, and lets every element of the range claim   *)
(*     the next slot of its bin with an atomic counter; sort_order holds   *)
(*     indices of the collection; with sort_within_bins each bin is then   *)
(*     bubble sorted with the comparator.                                  *)
(* The parallel binning loop claims slots atomically, so its result is     *)
(* that of running the loop bodies one after the other in some order: the  *)
(* order (sched) is an input of each action.                               *)
(*                                                                         *)
(* Keys are ints.  BinOp1D multiplies by the double nbin/(max-min); for    *)
(* the ranges and bin counts reachable here int(mul*(k-min)) equals the    *)
(* exact truncated quotient nbin*(k-min)/(max-min), which BinOp1D_bin      *)
(* uses.  When all keys of the range are equal the multiplier is inf or    *)
(* NaN and the bin index is int(NaN), undefined behaviour: builds yield 0  *)
(* (every element in bin 0) or INT_MIN (an access far outside bin_count,   *)
(* modelled as the call faulting before anything is moved).  Any other     *)
(* index outside bin_count is modelled the same way.                       *)
(*                                                                         *)
(* Three specifications share the state:                                   *)
(*   - Spec: every public operation as one step, on inputs that respect    *)
(*     the documented contract;                                            *)
(*   - EdgeSpec: the same steps on a key view longer than the collection   *)
(*     and on grids with a particle on the upper bound;                    *)
(*   - KernelSpec: sortByMember and binByMember statement by statement and *)
(*     kernel by kernel.  A launch queues a kernel and returns; the        *)
(*     execution space runs the queued kernels in launch order, the work   *)
(*     items of a kernel in any order, each atomically (BinSort counts and *)
(*     claims slots with atomic views); Kokkos::fence() waits for the      *)
(*     queue to drain.  Only the fences written in Cabana_Sort.hpp are     *)
(*     modelled; fences inside Kokkos would only remove behaviours.        *)
(***************************************************************************)
EXTENDS Integers, Sequences, FiniteSets, TLC

\* ------------------------------------------------------------------ bounds
NumParticles == 3

\* ------------------------------------------------------- program constants
NumMembers == 2
KeyMember == 1
INT_MAX == 2147483647
INT_MIN == (-INT_MAX) - 1

VARIABLES
    aosoa,      \* the particle collection: member index -> column
    keys,       \* the caller's explicit key view
    grid,       \* the caller's grid description (cell sizes and bounds)
    pc,         \* "idle" before the call, then "returned" or "fault"
    call,       \* the arguments of the call as they reach Impl::kokkosBinSort
    pre,        \* the collection as it was when the call was made
    bin_data,   \* the BinningData built by the call
    grid_data,  \* the CartesianGrid3dBinningData built by the call
    host,       \* the statements the calling thread has still to execute
    queue,      \* the kernels launched and not yet complete, oldest first
    dev,        \* the views the kernels of the call work on
    retired,    \* the kernels that have completed, in order
    torn        \* the calling thread read a result a kernel had not finished

vars == <<aosoa, keys, grid, pc, call, pre, bin_data, grid_data,
          host, queue, dev, retired, torn>>

\* ----------------------------------------------------------------- helpers
Index == 0 .. (NumParticles - 1)
KeyValues == 0 .. (NumParticles - 1)
BinCounts == 0 .. (NumParticles - 1)
Members == 0 .. (NumMembers - 1)

RECURSIVE PermsOf(_)
PermsOf(S) ==
    IF S = {} THEN {<<>>}
    ELSE UNION {{<<x>> \o p : p \in PermsOf(S \ {x})} : x \in S}

\* The orders in which the len loop bodies of one parallel_for can take effect.
Schedules == [len \in 0 .. (NumParticles + 1) |-> PermsOf(0 .. (len - 1))]

MinOf(S) == CHOOSE x \in S : \A y \in S : x <= y
MaxOf(S) == CHOOSE x \in S : \A y \in S : y <= x

size(a) == Cardinality(DOMAIN a[0])

\* static_cast<int> of the quotient num/den: truncation towards zero.
int_cast(num, den) ==
    LET abs(x) == IF x < 0 THEN -x ELSE x
        q == abs(num) \div abs(den)
    IN IF (num < 0) # (den < 0) THEN -q ELSE q

\* --------------------------------------------------------------- keyMinMax
\* Mutant of keyMinMax: the reduction runs over every key, not over [begin, end).
keyMinMax_all_keys(ks, begin, end) ==
    IF begin < end
    THEN [min_val |-> MinOf({ks[i] : i \in DOMAIN ks}),
          max_val |-> MaxOf({ks[i] : i \in DOMAIN ks})]
    ELSE [min_val |-> INT_MAX, max_val |-> INT_MIN]

keyMinMax(ks, begin, end) ==
    IF begin < end
    THEN [min_val |-> MinOf({ks[i] : i \in begin .. (end - 1)}),
          max_val |-> MaxOf({ks[i] : i \in begin .. (end - 1)})]
    ELSE [min_val |-> INT_MAX, max_val |-> INT_MIN]

\* ----------------------------------------------------------------- BinOp1D
\* Mutant of BinOp1D: the comparator has nbin bins, not nbin + 1.
BinOp1D_nbin_bins(nbin, min, max, nan) ==
    [kind |-> "BinOp1D", max_bins_ |-> nbin, nbin |-> nbin,
     range_ |-> IF min = INT_MAX /\ max = INT_MIN THEN 1 ELSE max - min,
     min_ |-> min, nan |-> nan]

\* nan is what the build's conversion int(NaN) yields.  On the bounds of an
\* empty range the int subtraction INT_MIN - INT_MAX wraps to 1 in 32 bits.
BinOp1D(nbin, min, max, nan) ==
    [kind |-> "BinOp1D", max_bins_ |-> nbin + 1, nbin |-> nbin,
     range_ |-> IF min = INT_MAX /\ max = INT_MIN THEN 1 ELSE max - min,
     min_ |-> min, nan |-> nan]

BinOp1D_bin(comp, ks, i) ==
    IF comp.range_ = 0 THEN comp.nan
    ELSE int_cast(comp.nbin * (ks[i] - comp.min_), comp.range_)

BinOp1D_less(comp, ks, i1, i2) == ks[i1] < ks[i2]

\* ----------------------------------------------------------------- BinOp3D
\* Lengths are in half cells, so that a cell centre is an integer.
BinOp3D(nbin, min, max, nan) ==
    [kind |-> "BinOp3D", max_bins_ |-> nbin, nbin |-> nbin,
     range_ |-> [d \in 1 .. 3 |-> max[d] - min[d]], min_ |-> min, nan |-> nan]

BinOp3D_axis(comp, ks, i, d) ==
    IF comp.range_[d] = 0 THEN comp.nan
    ELSE int_cast(comp.nbin[d] * (ks[i][d] - comp.min_[d]), comp.range_[d])

BinOp3D_bin(comp, ks, i) ==
    ((BinOp3D_axis(comp, ks, i, 1) * comp.max_bins_[2])
        + BinOp3D_axis(comp, ks, i, 2)) * comp.max_bins_[3]
    + BinOp3D_axis(comp, ks, i, 3)

BinOp3D_max_bins(comp) == comp.max_bins_[1] * comp.max_bins_[2] * comp.max_bins_[3]

\* ------------------------------------------- a comparator given by the caller
\* Two BinSort-compatible comparators: bins in descending key order, and bins
\* by key parity.
UserComparators ==
    {[kind |-> "User", max_bins_ |-> NumParticles, descending |-> TRUE,
      table |-> [k \in KeyValues |-> (NumParticles - 1) - k]],
     [kind |-> "User", max_bins_ |-> 2, descending |-> FALSE,
      table |-> [k \in KeyValues |-> k % 2]]}

comp_bin(comp, ks, i) ==
    CASE comp.kind = "BinOp1D" -> BinOp1D_bin(comp, ks, i)
      [] comp.kind = "BinOp3D" -> BinOp3D_bin(comp, ks, i)
      [] OTHER -> comp.table[ks[i]]

comp_max_bins(comp) ==
    IF comp.kind = "BinOp3D" THEN BinOp3D_max_bins(comp) ELSE comp.max_bins_

comp_less(comp, ks, i1, i2) ==
    CASE comp.kind = "BinOp1D" -> BinOp1D_less(comp, ks, i1, i2)
      [] comp.kind = "User" /\ comp.descending -> ks[i1] > ks[i2]
      [] OTHER -> ks[i1] < ks[i2]

\* ------------------------------------------------- BinSort::create_permute_vector
RECURSIVE SumTo(_, _)
SumTo(c, b) == IF b <= 0 THEN 0 ELSE c[b - 1] + SumTo(c, b - 1)

\* bin_count_tag; bins[j] is bin_op.bin(keys, j).
bin_count(bins, max_bins) ==
    [b \in 0 .. (max_bins - 1) |-> Cardinality({j \in DOMAIN bins : bins[j] = b})]

bin_offsets(counts) == [b \in DOMAIN counts |-> SumTo(counts, b)]

\* bin_binning_tag, the loop bodies i = sched[1], sched[2], ... in that order.
RECURSIVE bin_binning(_, _, _, _, _, _, _)
bin_binning(bins, begin, offsets, sched, n, cnt, so) ==
    IF n > Len(sched) THEN so
    ELSE LET j == begin + sched[n]
             bin == bins[j]
             count == cnt[bin]
         IN bin_binning(bins, begin, offsets, sched, n + 1,
                        [cnt EXCEPT ![bin] = count + 1],
                        [so EXCEPT ![offsets[bin] + count] = j])

\* bin_sort_bins_tag: one pass of the bubble sort of bin i.
RECURSIVE bubble_pass(_, _, _, _, _, _, _)
bubble_pass(so, ks, comp, k, upper_bound, old_idx, sorted) ==
    IF k >= upper_bound THEN [so |-> so, sorted |-> sorted]
    ELSE LET new_idx == so[k]
         IN IF ~comp_less(comp, ks, old_idx, new_idx)
            THEN bubble_pass([so EXCEPT ![k - 1] = new_idx, ![k] = old_idx],
                             ks, comp, k + 1, upper_bound, old_idx, FALSE)
            ELSE bubble_pass(so, ks, comp, k + 1, upper_bound, new_idx, sorted)

RECURSIVE bubble_loop(_, _, _, _, _)
bubble_loop(so, ks, comp, first, upper_bound) ==
    LET r == bubble_pass(so, ks, comp, first + 1, upper_bound, so[first], TRUE)
    IN IF r.sorted THEN r.so
       ELSE bubble_loop(r.so, ks, comp, first, upper_bound - 1)

bin_sort_bin(so, ks, comp, counts, offsets, i) ==
    IF counts[i] <= 1 THEN so
    ELSE bubble_loop(so, ks, comp, offsets[i], offsets[i] + counts[i])

RECURSIVE bin_sort_bins(_, _, _, _, _, _)
bin_sort_bins(so, ks, comp, counts, offsets, i) ==
    IF i >= comp_max_bins(comp) THEN so
    ELSE bin_sort_bins(bin_sort_bin(so, ks, comp, counts, offsets, i),
                       ks, comp, counts, offsets, i + 1)

\* Some loop body indexes bin_count outside [0, max_bins).
bin_out_of_bounds(ks, comp, begin, end) ==
    \E j \in begin .. (end - 1) :
        comp_bin(comp, ks, j) \notin 0 .. (comp_max_bins(comp) - 1)

create_permute_vector(ks, begin, end, comp, sort_within_bins, sched) ==
    LET bins == [j \in begin .. (end - 1) |-> comp_bin(comp, ks, j)]
        counts == bin_count(bins, comp_max_bins(comp))
        offsets == bin_offsets(counts)
        zero == [b \in DOMAIN counts |-> 0]
        blank == [p \in 0 .. (end - begin - 1) |-> begin]
        binned == bin_binning(bins, begin, offsets, sched, 1, zero, blank)
    IN [range_begin |-> begin,
        range_end |-> end,
        bin_count |-> counts,
        bin_offsets |-> offsets,
        sort_order |-> IF sort_within_bins
                       THEN bin_sort_bins(binned, ks, comp, counts, offsets, 0)
                       ELSE binned]

\* ------------------------------------------------------------ BinSort::sort
\* The caller passes a values range as long as the key range (else sort aborts).
BinSort_sort(bs, values, values_range_begin, values_range_end) ==
    LET len == bs.range_end - bs.range_begin
        sorted_values ==
            [i \in 0 .. (len - 1) |->
                values[(values_range_begin - bs.range_begin) + bs.sort_order[i]]]
    IN [p \in DOMAIN values |->
          IF p - values_range_begin \in 0 .. (len - 1)
          THEN sorted_values[p - values_range_begin]
          ELSE values[p]]

\* Mutants of sortMember: the recursion over the members stops after the
\* first one; the member is sorted over [0, end - begin).
sortMember_first_only(a, bs, begin, end, M) ==
    [a EXCEPT ![M] = BinSort_sort(bs, a[M], begin, end)]

RECURSIVE sortMember_from_zero(_, _, _, _, _)
sortMember_from_zero(a, bs, begin, end, M) ==
    LET sorted == [a EXCEPT ![M] = BinSort_sort(bs, a[M], 0, end - begin)]
    IN IF M = 0 THEN sorted ELSE sortMember_from_zero(sorted, bs, begin, end, M - 1)

RECURSIVE sortMember(_, _, _, _, _)
sortMember(a, bs, begin, end, M) ==
    LET sorted == [a EXCEPT ![M] = BinSort_sort(bs, a[M], begin, end)]
    IN IF M = 0 THEN sorted ELSE sortMember(sorted, bs, begin, end, M - 1)

\* Mutant of BinningData: _offsets is initialised from counts.
BinningData_offsets_from_counts(counts, offsets, permute_vector) ==
    [nbin |-> Cardinality(DOMAIN counts), counts |-> counts,
     offsets |-> counts, permute_vector |-> permute_vector]

BinningData(counts, offsets, permute_vector) ==
    [nbin |-> Cardinality(DOMAIN counts), counts |-> counts,
     offsets |-> offsets, permute_vector |-> permute_vector]

\* Mutants of kokkosBinSort: the offsets and the permute vector are handed to
\* BinningData in each other's place; with create_data_only the permute
\* vector is returned as it was allocated; create_data_only is not looked at.
kokkosBinSort_swapped_views(a, ks, comp, create_data_only, sort_within_bins, begin, end, sched) ==
    LET bs == create_permute_vector(ks, begin, end, comp, sort_within_bins, sched)
    IN [aosoa |-> IF ~create_data_only
                  THEN sortMember(a, bs, begin, end, NumMembers - 1)
                  ELSE a,
        data |-> BinningData(bs.bin_count, bs.sort_order, bs.bin_offsets)]

kokkosBinSort_data_only_no_permute(a, ks, comp, create_data_only, sort_within_bins, begin, end, sched) ==
    LET bs == create_permute_vector(ks, begin, end, comp, sort_within_bins, sched)
    IN [aosoa |-> IF ~create_data_only
                  THEN sortMember(a, bs, begin, end, NumMembers - 1)
                  ELSE a,
        data |-> BinningData(bs.bin_count, bs.bin_offsets,
                             IF create_data_only
                             THEN [p \in DOMAIN bs.sort_order |-> begin]
                             ELSE bs.sort_order)]

kokkosBinSort_always_sorts(a, ks, comp, create_data_only, sort_within_bins, begin, end, sched) ==
    LET bs == create_permute_vector(ks, begin, end, comp, sort_within_bins, sched)
    IN [aosoa |-> sortMember(a, bs, begin, end, NumMembers - 1),
        data |-> BinningData(bs.bin_count, bs.bin_offsets, bs.sort_order)]

kokkosBinSort(a, ks, comp, create_data_only, sort_within_bins, begin, end, sched) ==
    LET bs == create_permute_vector(ks, begin, end, comp, sort_within_bins, sched)
    IN [aosoa |-> IF ~create_data_only
                  THEN sortMember(a, bs, begin, end, NumMembers - 1)
                  ELSE a,
        data |-> BinningData(bs.bin_count, bs.bin_offsets, bs.sort_order)]

\* Mutant of kokkosBinSort1d_comp: the comparator is given nbin - 1.
kokkosBinSort1d_comp_one_less(ks, nbin, begin, end, nan) ==
    LET key_bounds == keyMinMax(ks, begin, end)
    IN BinOp1D(nbin - 1, key_bounds.min_val, key_bounds.max_val, nan)

kokkosBinSort1d_comp(ks, nbin, begin, end, nan) ==
    LET key_bounds == keyMinMax(ks, begin, end)
    IN BinOp1D(nbin, key_bounds.min_val, key_bounds.max_val, nan)

copySliceToKeys(slice) == [i \in DOMAIN slice |-> slice[i]]

\* -------------------------------------------------------------- BinningData
numBin(bd) == bd.nbin
binSize(bd, bin_id) == bd.counts[bin_id]
binOffset(bd, bin_id) == bd.offsets[bin_id]
permutation(bd, particle_id) == bd.permute_vector[particle_id]

\* ----------------------------------------------- CartesianGrid3dBinningData
CartesianGrid3dBinningData(bin_data_1d, nbin) ==
    [bin_data |-> bin_data_1d, nbin |-> nbin]

totalBins(g) == g.nbin[1] * g.nbin[2] * g.nbin[3]
gridNumBin(g, dim) == g.nbin[dim + 1]
\* Mutant of cardinalBinIndex: the strides are taken one dimension too low.
cardinalBinIndex_low_strides(g, i, j, k) == i * g.nbin[1] * g.nbin[2] + j * g.nbin[2] + k

cardinalBinIndex(g, i, j, k) == i * g.nbin[2] * g.nbin[3] + j * g.nbin[3] + k
gridBinSize(g, i, j, k) == binSize(g.bin_data, cardinalBinIndex(g, i, j, k))
gridBinOffset(g, i, j, k) == binOffset(g.bin_data, cardinalBinIndex(g, i, j, k))
data1d(g) == g.bin_data

\* ------------------------------------------------------------------ state
NoData == [nbin |-> 0, counts |-> <<>>, offsets |-> <<>>, permute_vector |-> <<>>]
NoGridData == [bin_data |-> NoData, nbin |-> <<>>]
NoCall == [op |-> "none"]
NoGrid == [dx |-> <<>>, min |-> <<>>, max |-> <<>>]
NoKeys == <<>>
\* call.nbin of an operation that takes no bin count
NotGiven == 0 - 1

\* A collection of an int member (KeyMember) and a member that records where
\* each particle was created; the explicit keys are the int member reversed.
ScalarInit ==
    \E col \in [Index -> KeyValues] :
        /\ keys = col
        /\ aosoa = [m \in Members |->
                      IF m = KeyMember
                      THEN [i \in Index |-> col[(NumParticles - 1) - i]]
                      ELSE [i \in Index |-> i]]
        /\ grid = NoGrid

\* Grids of cell size 2 (half cells) from the origin, of at most
\* NumParticles + 1 cells.
Shapes ==
    {s \in (1 .. (NumParticles + 1)) \X (1 .. (NumParticles + 1)) \X (1 .. (NumParticles + 1)) :
        s[1] * s[2] * s[3] <= NumParticles + 1}

Cells(s) == (0 .. (s[1] - 1)) \X (0 .. (s[2] - 1)) \X (0 .. (s[3] - 1))
Centre(c) == <<2 * c[1] + 1, 2 * c[2] + 1, 2 * c[3] + 1>>

\* Particles at cell centres: NumParticles of them anywhere, or one in each
\* cell, in any order.
Placements(s) ==
    [Index -> Cells(s)]
    \cup {f \in [0 .. (s[1] * s[2] * s[3] - 1) -> Cells(s)] :
            \A p, q \in DOMAIN f : p # q => f[p] # f[q]}

\* A collection of a position member (member 0) and a member that records
\* where each particle was created.  The grid ends on a cell boundary or half
\* a cell past one.
GridInit ==
    \E s \in Shapes : \E f \in Placements(s) : \E past \in {0, 1} :
        /\ keys = NoKeys
        /\ aosoa = [m \in Members |->
                      IF m = 0 THEN [i \in DOMAIN f |-> Centre(f[i])]
                      ELSE [i \in DOMAIN f |-> i]]
        /\ grid = [dx |-> <<2, 2, 2>>, min |-> <<0, 0, 0>>,
                   max |-> <<2 * s[1] + past, 2 * s[2] + past, 2 * s[3] + past>>]

\* Nothing is launched before the call.
NoDev == [slice_keys |-> <<>>]

NotLaunched ==
    /\ host = <<>>
    /\ queue = <<>>
    /\ dev = NoDev
    /\ retired = <<>>
    /\ torn = FALSE

Init ==
    /\ ScalarInit \/ GridInit
    /\ pc = "idle"
    /\ call = NoCall
    /\ pre = aosoa
    /\ bin_data = NoData
    /\ grid_data = NoGridData
    /\ NotLaunched

\* The slot a loop body of the binning gets depends only on the order of the
\* bodies of its own bin: the schedules that run bin after bin give every result.
BinSchedules(ks, comp, begin, end) ==
    LET binOf == [i \in 0 .. (end - begin - 1) |-> comp_bin(comp, ks, begin + i)]
    IN {s \in Schedules[end - begin] :
          \A n \in 1 .. (Len(s) - 1) : binOf[s[n]] <= binOf[s[n + 1]]}

\* Mutant of Run: the caller's key view is reordered with the members.
Run_keys_reordered(op, ks, comp, nbin, create_data_only, sort_within_bins, begin, end, nbin3) ==
    /\ pre' = aosoa
    /\ call' = [op |-> op, begin |-> begin, end |-> end, nbin |-> nbin,
                create_data_only |-> create_data_only,
                sort_within_bins |-> sort_within_bins,
                keys |-> ks, comp |-> comp]
    /\ UNCHANGED <<grid, host, queue, dev, retired, torn>>
    /\ IF bin_out_of_bounds(ks, comp, begin, end)
       THEN /\ pc' = "fault"
            /\ UNCHANGED <<aosoa, keys, bin_data, grid_data>>
       ELSE \E sched \in BinSchedules(ks, comp, begin, end) :
              LET r == kokkosBinSort(aosoa, ks, comp, create_data_only,
                                     sort_within_bins, begin, end, sched)
              IN /\ pc' = "returned"
                 /\ aosoa' = r.aosoa
                 /\ keys' = IF keys = NoKeys \/ create_data_only THEN keys
                            ELSE [i \in DOMAIN keys |->
                                    IF i - begin \in DOMAIN r.data.permute_vector
                                    THEN keys[r.data.permute_vector[i - begin]]
                                    ELSE keys[i]]
                 /\ bin_data' = r.data
                 /\ grid_data' = IF nbin3 = <<>> THEN NoGridData
                                 ELSE CartesianGrid3dBinningData(r.data, nbin3)

\* The body shared by every entry point: Impl::kokkosBinSort on the comparator.
Run(op, ks, comp, nbin, create_data_only, sort_within_bins, begin, end, nbin3) ==
    /\ pre' = aosoa
    /\ call' = [op |-> op, begin |-> begin, end |-> end, nbin |-> nbin,
                create_data_only |-> create_data_only,
                sort_within_bins |-> sort_within_bins,
                keys |-> ks, comp |-> comp]
    /\ UNCHANGED <<keys, grid, host, queue, dev, retired, torn>>
    /\ IF bin_out_of_bounds(ks, comp, begin, end)
       THEN /\ pc' = "fault"
            /\ UNCHANGED <<aosoa, bin_data, grid_data>>
       ELSE \E sched \in BinSchedules(ks, comp, begin, end) :
              LET r == kokkosBinSort(aosoa, ks, comp, create_data_only,
                                     sort_within_bins, begin, end, sched)
              IN /\ pc' = "returned"
                 /\ aosoa' = r.aosoa
                 /\ bin_data' = r.data
                 /\ grid_data' = IF nbin3 = <<>> THEN NoGridData
                                 ELSE CartesianGrid3dBinningData(r.data, nbin3)

Ranges == {r \in (0 .. size(aosoa)) \X (0 .. size(aosoa)) : r[1] <= r[2]}

\* What int(NaN) can be: 0 or INT_MIN, NaN arising when all keys are equal.
NanValues(ks, begin, end) ==
    IF begin < end /\ keyMinMax(ks, begin, end).min_val = keyMinMax(ks, begin, end).max_val
    THEN {0, INT_MIN}
    ELSE {0}

\* The caller passes a key view; nothing in the code compares its extent with
\* the size of the collection.
HasKeys == keys # NoKeys
HasKeyMember == grid = NoGrid
HasPositionMember == grid # NoGrid

kokkosBinSort1d(op, ks, nbin, create_data_only, sort_within_bins, begin, end) ==
    \E nan \in NanValues(ks, begin, end) :
        Run(op, ks, kokkosBinSort1d_comp(ks, nbin, begin, end, nan), nbin,
            create_data_only, sort_within_bins, begin, end, <<>>)

\* ------------------------------------------------------- public operations
sortByKeyWithComparator ==
    /\ pc = "idle"
    /\ HasKeys
    /\ \E r \in Ranges : \E comp \in UserComparators :
        Run("sortByKeyWithComparator", keys, comp, NotGiven, TRUE, FALSE, r[1], r[2], <<>>)

sortByKeyWithComparatorWhole ==
    /\ pc = "idle"
    /\ HasKeys
    /\ \E comp \in UserComparators :
        Run("sortByKeyWithComparatorWhole", keys, comp, NotGiven, FALSE, TRUE,
            0, size(aosoa), <<>>)

binByKeyWithComparator ==
    /\ pc = "idle"
    /\ HasKeys
    /\ \E r \in Ranges : \E comp \in UserComparators : \E create_data_only \in BOOLEAN :
        Run("binByKeyWithComparator", keys, comp, NotGiven, create_data_only, FALSE,
            r[1], r[2], <<>>)

binByKeyWithComparatorWhole ==
    /\ pc = "idle"
    /\ HasKeys
    /\ \E comp \in UserComparators : \E create_data_only \in BOOLEAN :
        Run("binByKeyWithComparatorWhole", keys, comp, NotGiven, create_data_only, FALSE,
            0, size(aosoa), <<>>)

\* Mutant of sortByKeyOn: the bins are not sorted within.
sortByKeyOn_unsorted_bins(op, ks, begin, end) ==
    LET nbin == (end - begin) \div 2
    IN kokkosBinSort1d(op, ks, nbin, FALSE, FALSE, begin, end)

sortByKeyOn(op, ks, begin, end) ==
    LET nbin == (end - begin) \div 2
    IN kokkosBinSort1d(op, ks, nbin, FALSE, TRUE, begin, end)

sortByKey ==
    /\ pc = "idle"
    /\ HasKeys
    /\ \E r \in Ranges : sortByKeyOn("sortByKey", keys, r[1], r[2])

sortByKeyWhole ==
    /\ pc = "idle"
    /\ HasKeys
    /\ sortByKeyOn("sortByKeyWhole", keys, 0, size(aosoa))

binByKeyOn(op, ks, nbin, create_data_only, begin, end) ==
    kokkosBinSort1d(op, ks, nbin, create_data_only, FALSE, begin, end)

binByKey ==
    /\ pc = "idle"
    /\ HasKeys
    /\ \E r \in Ranges : \E nbin \in BinCounts : \E create_data_only \in BOOLEAN :
        binByKeyOn("binByKey", keys, nbin, create_data_only, r[1], r[2])

binByKeyWhole ==
    /\ pc = "idle"
    /\ HasKeys
    /\ \E nbin \in BinCounts : \E create_data_only \in BOOLEAN :
        kokkosBinSort1d("binByKeyWhole", keys, nbin, create_data_only, FALSE,
                        0, size(aosoa))

sortByMemberOn(op, begin, end) ==
    sortByKeyOn(op, copySliceToKeys(aosoa[KeyMember]), begin, end)

sortByMember ==
    /\ pc = "idle"
    /\ HasKeyMember
    /\ \E r \in Ranges : sortByMemberOn("sortByMember", r[1], r[2])

sortByMemberWhole ==
    /\ pc = "idle"
    /\ HasKeyMember
    /\ sortByMemberOn("sortByMemberWhole", 0, size(aosoa))

binByMemberOn(op, nbin, create_data_only, begin, end) ==
    binByKeyOn(op, copySliceToKeys(aosoa[KeyMember]), nbin, create_data_only,
               begin, end)

binByMember ==
    /\ pc = "idle"
    /\ HasKeyMember
    /\ \E r \in Ranges : \E nbin \in BinCounts : \E create_data_only \in BOOLEAN :
        binByMemberOn("binByMember", nbin, create_data_only, r[1], r[2])

binByMemberWhole ==
    /\ pc = "idle"
    /\ HasKeyMember
    /\ \E nbin \in BinCounts : \E create_data_only \in BOOLEAN :
        binByMemberOn("binByMemberWhole", nbin, create_data_only, 0, size(aosoa))

\* Mutant of binByCartesianGrid3dOn: every axis gets the bin count of x.
binByCartesianGrid3dOn_x_counts(op, create_data_only, begin, end) ==
    LET position == aosoa[0]
        ks == [i \in DOMAIN position |-> position[i]]
        nbin == [d \in 1 .. 3 |-> int_cast(grid.max[1] - grid.min[1], grid.dx[1])]
        comp == BinOp3D(nbin, grid.min, grid.max, 0)
    IN Run(op, ks, comp, NotGiven, create_data_only, FALSE, begin, end, nbin)

\* Mutant of binByCartesianGrid3dOn: the bin counts are rounded to nearest.
binByCartesianGrid3dOn_rounded(op, create_data_only, begin, end) ==
    LET position == aosoa[0]
        ks == [i \in DOMAIN position |-> position[i]]
        nbin == [d \in 1 .. 3 |->
                    int_cast(2 * (grid.max[d] - grid.min[d]) + grid.dx[d],
                             2 * grid.dx[d])]
        comp == BinOp3D(nbin, grid.min, grid.max, 0)
    IN Run(op, ks, comp, NotGiven, create_data_only, FALSE, begin, end, nbin)

binByCartesianGrid3dOn(op, create_data_only, begin, end) ==
    LET position == aosoa[0]
        ks == [i \in DOMAIN position |-> position[i]]
        nbin == [d \in 1 .. 3 |-> int_cast(grid.max[d] - grid.min[d], grid.dx[d])]
        comp == BinOp3D(nbin, grid.min, grid.max, 0)
    IN Run(op, ks, comp, NotGiven, create_data_only, FALSE, begin, end, nbin)

binByCartesianGrid3d ==
    /\ pc = "idle"
    /\ HasPositionMember
    /\ \E r \in Ranges : \E create_data_only \in BOOLEAN :
        binByCartesianGrid3dOn("binByCartesianGrid3d", create_data_only, r[1], r[2])

binByCartesianGrid3dWhole ==
    /\ pc = "idle"
    /\ HasPositionMember
    /\ \E create_data_only \in BOOLEAN :
        binByCartesianGrid3dOn("binByCartesianGrid3dWhole", create_data_only,
                               0, size(aosoa))

Next ==
    \/ sortByKeyWithComparator
    \/ sortByKeyWithComparatorWhole
    \/ binByKeyWithComparator
    \/ binByKeyWithComparatorWhole
    \/ sortByKey
    \/ sortByKeyWhole
    \/ binByKey
    \/ binByKeyWhole
    \/ sortByMember
    \/ sortByMemberWhole
    \/ binByMember
    \/ binByMemberWhole
    \/ binByCartesianGrid3d
    \/ binByCartesianGrid3dWhole

Spec == Init /\ [][Next]_vars

\* ------------------------------------------- callers at the edge of the contract
\* The same operations called with a key view one longer than the collection.
LongKeysInit ==
    \E col \in [0 .. NumParticles -> KeyValues] :
        /\ keys = col
        /\ aosoa = [m \in Members |->
                      IF m = KeyMember
                      THEN [i \in Index |-> col[(NumParticles - 1) - i]]
                      ELSE [i \in Index |-> i]]
        /\ grid = NoGrid

\* The grids of GridInit with the particles at cell centres, except one that
\* is on the upper face of the grid on one axis.
FacePoints(s) ==
    {[Centre(c) EXCEPT ![d] = 2 * s[d]] : c \in Cells(s), d \in 1 .. 3}

OnFaceInit ==
    \E s \in Shapes : \E f \in [Index -> Cells(s)] :
      \E b \in Index : \E x \in FacePoints(s) :
        /\ keys = NoKeys
        /\ aosoa = [m \in Members |->
                      IF m = 0
                      THEN [i \in Index |-> IF i = b THEN x ELSE Centre(f[i])]
                      ELSE [i \in Index |-> i]]
        /\ grid = [dx |-> <<2, 2, 2>>, min |-> <<0, 0, 0>>,
                   max |-> <<2 * s[1], 2 * s[2], 2 * s[3]>>]

EdgeInit ==
    /\ LongKeysInit \/ OnFaceInit
    /\ pc = "idle"
    /\ call = NoCall
    /\ pre = aosoa
    /\ bin_data = NoData
    /\ grid_data = NoGridData
    /\ NotLaunched

EdgeSpec == EdgeInit /\ [][Next]_vars

\* ------------------------------------------------ one call, kernel by kernel
\* The calling thread runs the statements of the operation in program order.
\* A parallel_for or parallel_reduce only launches its kernel; the execution
\* space runs the launched kernels one after the other, in launch order, the
\* work items of a kernel in any order; Kokkos::fence() holds the calling
\* thread until every launched kernel is complete.
Kernel(name, member, items) == [name |-> name, member |-> member, items |-> items]
Launch(kernels) == [stmt |-> "launch", kernels |-> kernels]
Fence == [stmt |-> "fence", kernels |-> <<>>]
BinOp1D_ctor == [stmt |-> "BinOp1D", kernels |-> <<>>]
Return == [stmt |-> "return", kernels |-> <<>>]

copySliceToKeys_host(n) ==
    <<Launch(<<Kernel("copy_op", KeyMember, 0 .. (n - 1))>>), Fence>>

\* Mutant of keyMinMax_host: no fence after the reduction is launched.
keyMinMax_host_no_fence(begin, end) ==
    <<Launch(<<Kernel("min_max_functor", 0, begin .. (end - 1))>>)>>

keyMinMax_host(begin, end) ==
    <<Launch(<<Kernel("min_max_functor", 0, begin .. (end - 1))>>), Fence>>

create_permute_vector_host(sort_within_bins, len, max_bins) ==
    <<Launch(<<Kernel("bin_count_tag", 0, 0 .. (len - 1)),
               Kernel("bin_offset_tag", 0, {0}),
               Kernel("deep_copy", 0, {0}),
               Kernel("bin_binning_tag", 0, 0 .. (len - 1))>>
             \o (IF sort_within_bins
                 THEN <<Kernel("bin_sort_bins_tag", 0, 0 .. (max_bins - 1))>>
                 ELSE <<>>))>>

BinSort_sort_host(len, M) ==
    Launch(<<Kernel("copy_permute_functor", M, 0 .. (len - 1)),
             Kernel("copy_functor", M, 0 .. (len - 1))>>)

RECURSIVE sortMember_host(_, _)
sortMember_host(len, M) ==
    <<BinSort_sort_host(len, M)>>
        \o (IF M = 0 THEN <<>> ELSE sortMember_host(len, M - 1))

\* Mutant of kokkosBinSort_host: no fence after the members are sorted.
kokkosBinSort_host_no_fence(create_data_only, sort_within_bins, begin, end, max_bins) ==
    create_permute_vector_host(sort_within_bins, end - begin, max_bins)
        \o (IF ~create_data_only
            THEN sortMember_host(end - begin, NumMembers - 1)
            ELSE <<>>)
        \o <<Return>>

kokkosBinSort_host(create_data_only, sort_within_bins, begin, end, max_bins) ==
    create_permute_vector_host(sort_within_bins, end - begin, max_bins)
        \o (IF ~create_data_only
            THEN sortMember_host(end - begin, NumMembers - 1) \o <<Fence>>
            ELSE <<>>)
        \o <<Return>>

kokkosBinSort1d_host(nbin, create_data_only, sort_within_bins, begin, end) ==
    keyMinMax_host(begin, end)
        \o <<BinOp1D_ctor>>
        \o kokkosBinSort_host(create_data_only, sort_within_bins, begin, end, nbin + 1)

\* The views of one call: slice_keys (copySliceToKeys), the result of the
\* min/max reduction, the comparator, and the views of BinSort (bin_count and
\* bin_count_atomic are one allocation); views are allocated zeroed.
Zeros(S) == [x \in S |-> 0]

AllocViews(nbin, begin, end) ==
    [slice_keys |-> Zeros(DOMAIN aosoa[KeyMember]),
     key_bounds |-> [min_val |-> INT_MAX, max_val |-> INT_MIN],
     comp |-> BinOp1D(nbin, 0, 0, 0),
     bin_count |-> Zeros(0 .. nbin),
     bin_offsets |-> Zeros(0 .. nbin),
     sort_order |-> Zeros(0 .. (end - begin - 1)),
     sorted_values |-> [m \in Members |-> Zeros(0 .. (end - begin - 1))]]

\* ByMember: sortByMember and binByMember from entry to the first launch.
ByMember(op, nbin, create_data_only, sort_within_bins, begin, end) ==
    /\ pc = "idle"
    /\ HasKeyMember
    /\ pc' = "running"
    /\ pre' = aosoa
    /\ call' = [op |-> op, begin |-> begin, end |-> end, nbin |-> nbin,
                create_data_only |-> create_data_only,
                sort_within_bins |-> sort_within_bins,
                keys |-> copySliceToKeys(aosoa[KeyMember]),
                comp |-> BinOp1D(nbin, 0, 0, 0)]
    /\ host' = copySliceToKeys_host(size(aosoa))
                 \o kokkosBinSort1d_host(nbin, create_data_only, sort_within_bins,
                                         begin, end)
    /\ queue' = <<>>
    /\ dev' = AllocViews(nbin, begin, end)
    /\ retired' = <<>>
    /\ torn' = FALSE
    /\ UNCHANGED <<aosoa, keys, grid, bin_data, grid_data>>

\* The ranges of the kernel-level calls: up to the end of the collection, or empty.
KernelRanges == {r \in Ranges : r[2] = size(aosoa) \/ r[1] = r[2]}

sortByMemberEnter ==
    \E r \in KernelRanges :
        ByMember("sortByMember", (r[2] - r[1]) \div 2, FALSE, TRUE, r[1], r[2])

\* binByMember with the bin count tstSort.hpp uses, one less than the
\* number of particles.
KernelBinCounts == {NumParticles - 1}

binByMemberEnter ==
    \E r \in KernelRanges : \E nbin \in KernelBinCounts : \E create_data_only \in BOOLEAN :
        ByMember("binByMember", nbin, create_data_only, FALSE, r[1], r[2])

\* parallel_for / parallel_reduce: the kernels are queued, the thread goes on.
HostLaunch ==
    /\ pc = "running"
    /\ host # <<>>
    /\ Head(host).stmt = "launch"
    /\ queue' = queue \o Head(host).kernels
    /\ host' = Tail(host)
    /\ UNCHANGED <<aosoa, keys, grid, pc, call, pre, bin_data, grid_data,
                   dev, retired, torn>>

\* Kokkos::fence()
HostFence ==
    /\ pc = "running"
    /\ host # <<>>
    /\ Head(host).stmt = "fence"
    /\ queue = <<>>
    /\ host' = Tail(host)
    /\ UNCHANGED <<aosoa, keys, grid, pc, call, pre, bin_data, grid_data,
                   queue, dev, retired, torn>>

IsRetired(name) == \E n \in 1 .. Len(retired) : retired[n].name = name

\* Kokkos::BinOp1D comp( nbin, key_bounds.min_val, key_bounds.max_val ): the
\* calling thread reads the result of the reduction.
HostBinOp1D ==
    /\ pc = "running"
    /\ host # <<>>
    /\ Head(host).stmt = "BinOp1D"
    /\ \E nan \in (IF dev.key_bounds.min_val = dev.key_bounds.max_val
                   THEN {0, INT_MIN} ELSE {0}) :
         LET comp == BinOp1D(call.nbin, dev.key_bounds.min_val,
                             dev.key_bounds.max_val, nan)
         IN /\ dev' = [dev EXCEPT !.comp = comp]
            /\ call' = [call EXCEPT !.comp = comp]
    /\ torn' = (torn \/ ~IsRetired("min_max_functor"))
    /\ host' = Tail(host)
    /\ UNCHANGED <<aosoa, keys, grid, pc, pre, bin_data, grid_data, queue, retired>>

\* The BinningData holds the views of BinSort, not copies of them.
BinningDataOf(d) == BinningData(d.bin_count, d.bin_offsets, d.sort_order)

HostReturn ==
    /\ pc = "running"
    /\ host # <<>>
    /\ Head(host).stmt = "return"
    /\ pc' = "returned"
    /\ host' = Tail(host)
    /\ bin_data' = BinningDataOf(dev)
    /\ UNCHANGED <<aosoa, keys, grid, call, pre, grid_data, queue, dev, retired, torn>>

\* One work item of each kernel: d are the views, a the members, j the index
\* of the particle and i that of the work item.
\* Mutant of copy_op: the keys are copied from the first member.
copy_op_first_member(d, a, m, i) == [d EXCEPT !.slice_keys[i] = a[0][i]]

copy_op(d, a, m, i) == [d EXCEPT !.slice_keys[i] = a[m][i]]

min_max_functor(d, i) ==
    [d EXCEPT !.key_bounds.min_val = IF d.slice_keys[i] < @ THEN d.slice_keys[i] ELSE @,
              !.key_bounds.max_val = IF d.slice_keys[i] > @ THEN d.slice_keys[i] ELSE @]

bin_count_tag(d, j) ==
    [d EXCEPT !.bin_count[comp_bin(d.comp, d.slice_keys, j)] = @ + 1]

bin_offset_tag(d) == [d EXCEPT !.bin_offsets = bin_offsets(d.bin_count)]

deep_copy(d) == [d EXCEPT !.bin_count = Zeros(DOMAIN d.bin_count)]

\* Mutant of bin_binning_tag: the slot counter of the bin is read but not
\* advanced, as when two work items increment it without an atomic.
bin_binning_tag_lost_update(d, j) ==
    LET bin == comp_bin(d.comp, d.slice_keys, j)
        count == d.bin_count[bin]
    IN [d EXCEPT !.sort_order[d.bin_offsets[bin] + count] = j]

bin_binning_tag(d, j) ==
    LET bin == comp_bin(d.comp, d.slice_keys, j)
        count == d.bin_count[bin]
    IN [d EXCEPT !.bin_count[bin] = count + 1,
                 !.sort_order[d.bin_offsets[bin] + count] = j]

bin_sort_bins_tag(d, i) ==
    [d EXCEPT !.sort_order = bin_sort_bin(d.sort_order, d.slice_keys, d.comp,
                                          d.bin_count, d.bin_offsets, i)]

copy_permute_functor(d, a, m, i) ==
    [d EXCEPT !.sorted_values[m][i] = a[m][d.sort_order[i]]]

copy_functor(d, a, m, i, dst_offset) ==
    [a EXCEPT ![m][i + dst_offset] = d.sorted_values[m][i]]

WorkItem(k, i, d, a) ==
    CASE k.name = "copy_op" -> [dev |-> copy_op(d, a, k.member, i), aosoa |-> a]
      [] k.name = "min_max_functor" -> [dev |-> min_max_functor(d, i), aosoa |-> a]
      [] k.name = "bin_count_tag" ->
            [dev |-> bin_count_tag(d, call.begin + i), aosoa |-> a]
      [] k.name = "bin_offset_tag" -> [dev |-> bin_offset_tag(d), aosoa |-> a]
      [] k.name = "deep_copy" -> [dev |-> deep_copy(d), aosoa |-> a]
      [] k.name = "bin_binning_tag" ->
            [dev |-> bin_binning_tag(d, call.begin + i), aosoa |-> a]
      [] k.name = "bin_sort_bins_tag" -> [dev |-> bin_sort_bins_tag(d, i), aosoa |-> a]
      [] k.name = "copy_permute_functor" ->
            [dev |-> copy_permute_functor(d, a, k.member, i), aosoa |-> a]
      [] OTHER ->
            [dev |-> d, aosoa |-> copy_functor(d, a, k.member, i, call.begin)]

\* The work item indexes bin_count outside the view.
WorkItemOutOfBounds(k, i, d) ==
    /\ k.name \in {"bin_count_tag", "bin_binning_tag"}
    /\ comp_bin(d.comp, d.slice_keys, call.begin + i) \notin DOMAIN d.bin_count

\* A BinningData the caller already holds sees what the kernels write.
DeviceWork ==
    /\ pc \in {"running", "returned"}
    /\ queue # <<>>
    /\ \E i \in Head(queue).items :
         /\ ~WorkItemOutOfBounds(Head(queue), i, dev)
         /\ LET r == WorkItem(Head(queue), i, dev, aosoa)
            IN /\ dev' = r.dev
               /\ aosoa' = r.aosoa
               /\ bin_data' = IF pc = "returned" THEN BinningDataOf(r.dev) ELSE bin_data
         /\ queue' = [queue EXCEPT ![1].items = @ \ {i}]
    /\ UNCHANGED <<keys, grid, pc, call, pre, grid_data, host, retired, torn>>

DeviceFault ==
    /\ pc \in {"running", "returned"}
    /\ queue # <<>>
    /\ \E i \in Head(queue).items : WorkItemOutOfBounds(Head(queue), i, dev)
    /\ pc' = "fault"
    /\ host' = <<>>
    /\ queue' = <<>>
    /\ UNCHANGED <<aosoa, keys, grid, call, pre, bin_data, grid_data, dev, retired, torn>>

KernelDone ==
    /\ pc \in {"running", "returned"}
    /\ queue # <<>>
    /\ Head(queue).items = {}
    /\ retired' = Append(retired, [name |-> Head(queue).name,
                                   member |-> Head(queue).member])
    /\ queue' = Tail(queue)
    /\ UNCHANGED <<aosoa, keys, grid, pc, call, pre, bin_data, grid_data,
                   host, dev, torn>>

KernelNext ==
    \/ sortByMemberEnter
    \/ binByMemberEnter
    \/ HostLaunch
    \/ HostFence
    \/ HostBinOp1D
    \/ HostReturn
    \/ DeviceWork
    \/ DeviceFault
    \/ KernelDone

KernelInit ==
    /\ ScalarInit
    /\ pc = "idle"
    /\ call = NoCall
    /\ pre = aosoa
    /\ bin_data = NoData
    /\ grid_data = NoGridData
    /\ NotLaunched

KernelSpec == KernelInit /\ [][KernelNext]_vars

\* ------------------------------------------------------------ vocabulary
Returned == pc = "returned"
RangeLen == call.end - call.begin
InRange(p) == call.begin <= p /\ p < call.end
TracerMember == IF grid = NoGrid THEN 0 ELSE 1

SortOps1d == {"sortByKey", "sortByKeyWhole", "sortByMember", "sortByMemberWhole"}
BinOps1d == {"binByKey", "binByKeyWhole", "binByMember", "binByMemberWhole"}
GridOps == {"binByCartesianGrid3d", "binByCartesianGrid3dWhole"}
DataOnlyOps ==
    BinOps1d \cup GridOps \cup {"binByKeyWithComparator", "binByKeyWithComparatorWhole"}

\* The index before the call of the particle now at index p.
OldIndexOf(p) == aosoa[TracerMember][p]
\* The key the call used for the particle now at index p.
KeyNowAt(p) == call.keys[OldIndexOf(p)]

RECURSIVE SumOfBinSizes(_, _)
SumOfBinSizes(bd, n) ==
    IF n <= 0 THEN 0 ELSE binSize(bd, n - 1) + SumOfBinSizes(bd, n - 1)

\* C1: the permutation vector of a call on a non-empty range has end - begin
\* entries, each in [begin, end), no two equal.
C1_PermutationBijection ==
    (Returned /\ call.begin < call.end) =>
        /\ DOMAIN bin_data.permute_vector = 0 .. (RangeLen - 1)
        /\ \A p \in 0 .. (RangeLen - 1) : InRange(permutation(bin_data, p))
        /\ \A p, q \in 0 .. (RangeLen - 1) :
              p # q => permutation(bin_data, p) # permutation(bin_data, q)

C1_Witness ==
    /\ Returned
    /\ call.begin > 0
    /\ RangeLen >= 2
    /\ \E p \in 0 .. (RangeLen - 1) : permutation(bin_data, p) # call.begin + p

\* C2: offsets start at 0, each is the previous offset plus the previous bin
\* size, sizes are not negative and add up to end - begin.
C2_OffsetsArePrefixSums ==
    Returned =>
        /\ numBin(bin_data) >= 1
        /\ binOffset(bin_data, 0) = 0
        /\ \A b \in 1 .. (numBin(bin_data) - 1) :
              binOffset(bin_data, b) = binOffset(bin_data, b - 1) + binSize(bin_data, b - 1)
        /\ \A b \in 0 .. (numBin(bin_data) - 1) : binSize(bin_data, b) >= 0
        /\ SumOfBinSizes(bin_data, numBin(bin_data)) = RangeLen

C2_Witness ==
    /\ Returned
    /\ call.begin > 0
    /\ \E b, c \in 0 .. (numBin(bin_data) - 1) :
          /\ b < c
          /\ binSize(bin_data, b) = 0
          /\ binSize(bin_data, c) >= 2

\* C3: after binByKey or binByMember every particle of the range lies in the
\* slots of the bucket the linear-range formula gives its key, with the key
\* bounds taken over [begin, end) only; slots are counted from the start of
\* the reordered range, as the offsets are.  All keys equal is bucket 0.
LinearRangeBucket(k, key_min, key_max, nbin) ==
    IF key_max = key_min THEN 0
    ELSE ((k - key_min) * nbin) \div (key_max - key_min)

C3_BucketHoldsParticle ==
    (Returned /\ call.op \in BinOps1d /\ call.begin < call.end) =>
        LET ks == {call.keys[i] : i \in call.begin .. (call.end - 1)}
            key_min == CHOOSE k \in ks : \A l \in ks : k <= l
            key_max == CHOOSE k \in ks : \A l \in ks : l <= k
        IN \A p \in 0 .. (RangeLen - 1) :
              LET k == call.keys[permutation(bin_data, p)]
                  b == LinearRangeBucket(k, key_min, key_max, call.nbin)
              IN /\ b \in 0 .. (numBin(bin_data) - 1)
                 /\ binOffset(bin_data, b) <= p
                 /\ p < binOffset(bin_data, b) + binSize(bin_data, b)
                 /\ (~call.create_data_only =>
                        OldIndexOf(call.begin + p) = permutation(bin_data, p))

\* A sub-range whose key bounds differ from those of the whole collection.
C3_Witness ==
    /\ Returned
    /\ call.op \in BinOps1d
    /\ ~call.create_data_only
    /\ call.begin > 0
    /\ RangeLen >= 2
    /\ call.nbin >= 2
    /\ \E i \in DOMAIN call.keys : ~InRange(i) /\ call.keys[i] < call.comp.min_
    /\ \E p \in 0 .. (RangeLen - 1) : permutation(bin_data, p) # call.begin + p

\* C4: after sortByKey or sortByMember the particles of [begin, end) are in
\* non-decreasing key order.
C4_SortedByKey ==
    (Returned /\ call.op \in SortOps1d) =>
        \A p, q \in call.begin .. (call.end - 1) :
            p < q => KeyNowAt(p) <= KeyNowAt(q)

C4_Witness ==
    /\ Returned
    /\ call.op \in SortOps1d
    /\ RangeLen >= 3
    /\ aosoa # pre
    /\ \E b \in 0 .. (numBin(bin_data) - 1) : binSize(bin_data, b) >= 2
    /\ \E p, q \in call.begin .. (call.end - 1) : KeyNowAt(p) < KeyNowAt(q)

\* C5: a bin operation called with create_data_only leaves every member as
\* it was.
C5_DataOnlyLeavesMembers ==
    (pc # "idle" /\ call.op \in DataOnlyOps /\ call.create_data_only) =>
        \A m \in Members : \A p \in DOMAIN pre[m] : aosoa[m][p] = pre[m][p]

C5_Witness ==
    /\ Returned
    /\ call.op \in DataOnlyOps
    /\ call.create_data_only
    /\ \E p \in 0 .. (RangeLen - 1) : permutation(bin_data, p) # call.begin + p

\* C6: without create_data_only every member holds at each position p of the
\* range what it held before the call at index permutation(p).
C6_MembersMoveTogether ==
    (Returned /\ ~call.create_data_only) =>
        \A m \in Members : \A p \in 0 .. (RangeLen - 1) :
            aosoa[m][call.begin + p] = pre[m][permutation(bin_data, p)]

C6_Witness ==
    /\ Returned
    /\ ~call.create_data_only
    /\ call.begin > 0
    /\ \A m \in Members : aosoa[m] # pre[m]

\* C7: a call on [begin, end) leaves every member unchanged at every index
\* outside the range.
C7_OutsideRangeUntouched ==
    (pc # "idle") =>
        \A m \in Members : \A p \in DOMAIN pre[m] :
            ~InRange(p) => aosoa[m][p] = pre[m][p]

C7_Witness ==
    /\ Returned
    /\ aosoa # pre
    /\ call.begin > 0
    /\ call.end < size(aosoa)

\* C8: the cardinal index of bin (i, j, k) is i*ny*nz + j*nz + k, and going
\* through the bins with i slowest and k fastest counts 0, 1, 2, ...: the
\* cardinal index of a bin is the number of bins that come before it.
ComesBefore(c, d) ==
    \/ c[1] < d[1]
    \/ c[1] = d[1] /\ c[2] < d[2]
    \/ c[1] = d[1] /\ c[2] = d[2] /\ c[3] < d[3]

BinsOf(g) ==
    (0 .. (gridNumBin(g, 0) - 1)) \X (0 .. (gridNumBin(g, 1) - 1))
        \X (0 .. (gridNumBin(g, 2) - 1))

C8_CardinalOrdering ==
    (Returned /\ call.op \in GridOps) =>
        \A c \in BinsOf(grid_data) :
            /\ cardinalBinIndex(grid_data, c[1], c[2], c[3])
                 = c[1] * gridNumBin(grid_data, 1) * gridNumBin(grid_data, 2)
                   + c[2] * gridNumBin(grid_data, 2) + c[3]
            /\ cardinalBinIndex(grid_data, c[1], c[2], c[3])
                 = Cardinality({d \in BinsOf(grid_data) : ComesBefore(d, c)})

C8_Witness ==
    /\ Returned
    /\ call.op \in GridOps
    /\ gridNumBin(grid_data, 1) >= 2
    /\ gridNumBin(grid_data, 2) >= 2

\* C9: one particle at the centre of each cell, in any order, binned over the
\* whole collection without create_data_only: there are nx*ny*nz bins, each of
\* size 1 and offset its cardinal index, and the particle of cell (i, j, k) is
\* at position i*ny*nz + j*nz + k.
CellOfPosition(x) == <<(x[1] - 1) \div 2, (x[2] - 1) \div 2, (x[3] - 1) \div 2>>
GridShape == [d \in 1 .. 3 |-> (grid.max[d] - grid.min[d]) \div 2]

OneParticlePerCell ==
    /\ size(pre) = GridShape[1] * GridShape[2] * GridShape[3]
    /\ \A p, q \in DOMAIN pre[0] : p # q => pre[0][p] # pre[0][q]

C9_OneParticlePerCell ==
    (/\ Returned
     /\ call.op \in GridOps
     /\ ~call.create_data_only
     /\ call.begin = 0
     /\ call.end = size(pre)
     /\ OneParticlePerCell) =>
        /\ totalBins(grid_data) = GridShape[1] * GridShape[2] * GridShape[3]
        /\ \A c \in Cells(GridShape) :
              /\ gridBinSize(grid_data, c[1], c[2], c[3]) = 1
              /\ gridBinOffset(grid_data, c[1], c[2], c[3])
                   = cardinalBinIndex(grid_data, c[1], c[2], c[3])
              /\ aosoa[0][c[1] * GridShape[2] * GridShape[3] + c[2] * GridShape[3] + c[3]]
                   = Centre(c)

C9_Witness ==
    /\ Returned
    /\ call.op \in GridOps
    /\ ~call.create_data_only
    /\ call.begin = 0
    /\ call.end = size(pre)
    /\ OneParticlePerCell
    /\ GridShape[2] >= 2
    /\ GridShape[3] >= 2
    /\ aosoa # pre

\* C10: keys the distinct integers 0 .. N-1 in any order, binByKey or
\* binByMember over the whole collection with nbin = N-1: N bins, each of size
\* 1 and offset b, and permutation(p) is where the particle of key p was.
KeysAreZeroToNMinusOne ==
    /\ \A i \in DOMAIN call.keys : call.keys[i] \in 0 .. (size(pre) - 1)
    /\ \A i, j \in DOMAIN call.keys : i # j => call.keys[i] # call.keys[j]

C10_OneParticlePerBin ==
    (/\ Returned
     /\ call.op \in BinOps1d
     /\ call.begin = 0
     /\ call.end = size(pre)
     /\ call.nbin = size(pre) - 1
     /\ KeysAreZeroToNMinusOne) =>
        /\ numBin(bin_data) = size(pre)
        /\ \A b \in 0 .. (size(pre) - 1) :
              /\ binSize(bin_data, b) = 1
              /\ binOffset(bin_data, b) = b
              /\ call.keys[permutation(bin_data, b)] = b

C10_Witness ==
    /\ Returned
    /\ call.op \in BinOps1d
    /\ call.begin = 0
    /\ call.end = size(pre)
    /\ call.nbin = size(pre) - 1
    /\ KeysAreZeroToNMinusOne
    /\ \E p \in 0 .. (size(pre) - 1) : permutation(bin_data, p) # p

\* C11 as stated: after binByKey or binByMember with nbin bins the BinningData
\* has nbin bins (counts and offsets of length nbin) and every particle of the
\* range has a bin index in [0, nbin-1].
AssignedBin(j) == comp_bin(call.comp, call.keys, j)

AllKeysEqual ==
    /\ call.begin < call.end
    /\ \A i, j \in call.begin .. (call.end - 1) : call.keys[i] = call.keys[j]

C12_EqualKeysBinZero ==
    (pc # "idle" /\ call.op \in (SortOps1d \cup BinOps1d) /\ AllKeysEqual) =>
        /\ Returned
        /\ \A j \in call.begin .. (call.end - 1) : AssignedBin(j) = 0
        /\ binOffset(bin_data, 0) = 0
        /\ binSize(bin_data, 0) = RangeLen
        /\ \A p \in 0 .. (RangeLen - 1) : InRange(permutation(bin_data, p))

\* C14 as stated, for the key view: a call whose key view is not as long as
\* the collection does not return normally and leaves every member as it was.
ByKeyOps ==
    {"sortByKeyWithComparator", "sortByKeyWithComparatorWhole",
     "binByKeyWithComparator", "binByKeyWithComparatorWhole",
     "sortByKey", "sortByKeyWhole", "binByKey", "binByKeyWhole"}

KeyLengthMismatch == Cardinality(DOMAIN call.keys) # size(pre)

C14_ViolationFails ==
    (pc # "idle" /\ call.op \in ByKeyOps /\ KeyLengthMismatch) =>
        /\ ~Returned
        /\ \A m \in Members : \A p \in DOMAIN pre[m] : aosoa[m][p] = pre[m][p]

\* C16 as stated: in binByCartesianGrid3d every particle of the range whose
\* position is within [min, max] on each axis, the upper bound included, gets
\* a bin index in [0, nbin[d]-1] on each axis d and a linear bin index in
\* [0, totalBins).
WithinGrid(x) == \A d \in 1 .. 3 : grid.min[d] <= x[d] /\ x[d] <= grid.max[d]

C16_BinIndexInGrid ==
    (pc # "idle" /\ call.op \in GridOps) =>
        \A j \in call.begin .. (call.end - 1) :
            WithinGrid(call.keys[j]) =>
                /\ \A d \in 1 .. 3 :
                      BinOp3D_axis(call.comp, call.keys, j, d)
                          \in 0 .. (call.comp.nbin[d] - 1)
                /\ AssignedBin(j) \in 0 .. (BinOp3D_max_bins(call.comp) - 1)

\* C15 as stated: after sortByKeyWithComparator on [begin, end) every member
\* holds the particles of the range in the order of the permutation, which is
\* non-decreasing in the comparator's bin index and, within a bin, never puts
\* a particle before one the comparator orders first.
BinNowAt(p) == call.comp.table[KeyNowAt(p)]

C15_SubRangeSorted ==
    (Returned /\ call.op = "sortByKeyWithComparator") =>
        /\ \A m \in Members : \A p \in 0 .. (RangeLen - 1) :
              aosoa[m][call.begin + p] = pre[m][permutation(bin_data, p)]
        /\ \A p, q \in call.begin .. (call.end - 1) :
              p < q =>
                /\ BinNowAt(p) <= BinNowAt(q)
                /\ (BinNowAt(p) = BinNowAt(q) =>
                       ~comp_less(call.comp, call.keys, OldIndexOf(q), OldIndexOf(p)))

\* C17: the BinningData wrapped by a CartesianGrid3dBinningData has exactly
\* numBin(0)*numBin(1)*numBin(2) bins, which is totalBins(), and numBin(d) is
\* the whole number of cells of size dx[d] that fit between min[d] and max[d].
WholeCells(d) ==
    CHOOSE n \in 0 .. (grid.max[d] - grid.min[d]) :
        /\ n * grid.dx[d] <= grid.max[d] - grid.min[d]
        /\ grid.max[d] - grid.min[d] < (n + 1) * grid.dx[d]

C17_WrappedBinCount ==
    (Returned /\ call.op \in GridOps) =>
        /\ numBin(data1d(grid_data)) = totalBins(grid_data)
        /\ totalBins(grid_data)
             = gridNumBin(grid_data, 0) * gridNumBin(grid_data, 1) * gridNumBin(grid_data, 2)
        /\ DOMAIN data1d(grid_data).counts = 0 .. (totalBins(grid_data) - 1)
        /\ DOMAIN data1d(grid_data).offsets = 0 .. (totalBins(grid_data) - 1)
        /\ \A d \in 0 .. 2 : gridNumBin(grid_data, d) = WholeCells(d + 1)

\* A grid that ends past a cell boundary, with several cells on two axes.
C17_Witness ==
    /\ Returned
    /\ call.op \in GridOps
    /\ \E d \in 1 .. 3 : (grid.max[d] - grid.min[d]) % grid.dx[d] # 0
    /\ gridNumBin(grid_data, 1) >= 2
    /\ gridNumBin(grid_data, 2) >= 2
    /\ \E b \in 0 .. (numBin(data1d(grid_data)) - 1) : binSize(data1d(grid_data), b) >= 2

\* ------------------------------------------- vocabulary of the kernel level
Completed == pc = "returned" /\ queue = <<>>
Launched(name) ==
    IsRetired(name) \/ \E n \in 1 .. Len(queue) : queue[n].name = name
\* The kernel may run: it is complete or the oldest of the queue.
Begun(name) == IsRetired(name) \/ (queue # <<>> /\ Head(queue).name = name)

\* C13 as stated: a call with begin = end launches neither the min/max
\* reduction nor a kernel that assigns buckets, and once complete its
\* BinningData has only empty bins and a permutation of length zero.
C13_EmptyRangeSkipsPhases ==
    (pc # "idle" /\ call.begin = call.end) =>
        /\ ~Launched("min_max_functor")
        /\ ~Launched("bin_count_tag")
        /\ ~Launched("bin_binning_tag")
        /\ Completed =>
              /\ \A b \in 0 .. (numBin(bin_data) - 1) : binSize(bin_data, b) = 0
              /\ DOMAIN bin_data.permute_vector = {}

\* C18: when a call without create_data_only has returned, no kernel of the
\* call is still queued or running, and every member holds at each position p
\* of the range what it held before the call at index permutation(p).
C18_ReorderedAtReturn ==
    (pc = "returned" /\ ~call.create_data_only) =>
        /\ queue = <<>>
        /\ \A m \in Members : \A p \in 0 .. (RangeLen - 1) :
              aosoa[m][call.begin + p] = pre[m][permutation(bin_data, p)]

C18_Witness ==
    /\ pc = "returned"
    /\ ~call.create_data_only
    /\ call.begin > 0
    /\ RangeLen >= 2
    /\ \A m \in Members : aosoa[m] # pre[m]

\* C19: the calling thread never reads the key bounds before the reduction
\* is complete, and a kernel of a later phase may run only when every kernel
\* of the earlier phases is complete; the phases are: copy of the member into
\* the keys, key bounds, bin counts, bin offsets, construction of the
\* permutation, application of the permutation.
PhaseOf(name) ==
    CASE name = "copy_op" -> 1
      [] name = "min_max_functor" -> 2
      [] name = "bin_count_tag" -> 3
      [] name = "bin_offset_tag" -> 4
      [] name \in {"deep_copy", "bin_binning_tag", "bin_sort_bins_tag"} -> 5
      [] OTHER -> 6

KernelsOfCall ==
    {"copy_op", "min_max_functor", "bin_count_tag", "bin_offset_tag", "deep_copy",
     "bin_binning_tag"}
    \cup (IF call.sort_within_bins THEN {"bin_sort_bins_tag"} ELSE {})
    \cup (IF call.create_data_only THEN {}
          ELSE {"copy_permute_functor", "copy_functor"})

Sequential ==
    create_permute_vector(call.keys, call.begin, call.end, call.comp,
                          call.sort_within_bins,
                          [n \in 1 .. RangeLen |-> n - 1])

SameAsSequentialUpToOrderInBins ==
    /\ bin_data.counts = Sequential.bin_count
    /\ bin_data.offsets = Sequential.bin_offsets
    /\ DOMAIN bin_data.permute_vector = 0 .. (RangeLen - 1)
    /\ \A p, q \in 0 .. (RangeLen - 1) :
          p # q => permutation(bin_data, p) # permutation(bin_data, q)
    /\ \A p \in 0 .. (RangeLen - 1) :
          /\ InRange(permutation(bin_data, p))
          /\ AssignedBin(permutation(bin_data, p)) = AssignedBin(Sequential.sort_order[p])
    /\ \A m \in Members : \A p \in DOMAIN pre[m] :
          aosoa[m][p] = IF InRange(p) /\ ~call.create_data_only
                        THEN pre[m][permutation(bin_data, p - call.begin)]
                        ELSE pre[m][p]

\* C20 as stated, for keys that are not all equal: with sort_within_bins
\* nothing differs from that run.
C20_OnlyUnsortedBinsDiffer ==
    (Completed /\ ~AllKeysEqual) =>
        /\ SameAsSequentialUpToOrderInBins
        /\ call.sort_within_bins => bin_data.permute_vector = Sequential.sort_order

\* C20 amended: with sort_within_bins the keys are in the order of that run;
\* particles of equal key within a bin may still be in another order.
C20_InterleavingsAgree ==
    Completed =>
        /\ SameAsSequentialUpToOrderInBins
        /\ call.sort_within_bins =>
              \A p \in 0 .. (RangeLen - 1) :
                  call.keys[permutation(bin_data, p)] = call.keys[Sequential.sort_order[p]]

\* Several particles share a bin and were binned against the index order.
C20_Witness ==
    /\ Completed
    /\ ~call.create_data_only
    /\ RangeLen >= 3
    /\ \E b \in 0 .. (numBin(bin_data) - 1) : binSize(bin_data, b) >= 2
    /\ bin_data.permute_vector # Sequential.sort_order
    /\ aosoa # pre

\* ------------------------------------------- the sub-range overloads as functions
\* Everything a call can return on the collection a: one result for each
\* order of the loop bodies of each bin (and each value the build gives
\* int(NaN)); none when the call faults.
kokkosBinSortResults(a, ks, comp, create_data_only, sort_within_bins, begin, end) ==
    IF bin_out_of_bounds(ks, comp, begin, end) THEN {}
    ELSE {kokkosBinSort(a, ks, comp, create_data_only, sort_within_bins,
                        begin, end, sched) :
            sched \in BinSchedules(ks, comp, begin, end)}

kokkosBinSort1dResults(a, ks, nbin, create_data_only, sort_within_bins, begin, end) ==
    UNION {kokkosBinSortResults(a, ks, kokkosBinSort1d_comp(ks, nbin, begin, end, nan),
                                create_data_only, sort_within_bins, begin, end) :
           nan \in NanValues(ks, begin, end)}

\* Mutant of sortByKeyResults: the bins are not sorted within.
sortByKeyResults_unsorted_bins(a, ks, begin, end) ==
    kokkosBinSort1dResults(a, ks, (end - begin) \div 2, FALSE, FALSE, begin, end)

sortByKeyResults(a, ks, begin, end) ==
    kokkosBinSort1dResults(a, ks, (end - begin) \div 2, FALSE, TRUE, begin, end)

binByKeyResults(a, ks, nbin, create_data_only, begin, end) ==
    kokkosBinSort1dResults(a, ks, nbin, create_data_only, FALSE, begin, end)

sortByKeyWithComparatorResults(a, ks, comp, begin, end) ==
    kokkosBinSortResults(a, ks, comp, TRUE, FALSE, begin, end)

binByKeyWithComparatorResults(a, ks, comp, create_data_only, begin, end) ==
    kokkosBinSortResults(a, ks, comp, create_data_only, FALSE, begin, end)

sortByMemberResults(a, begin, end) ==
    sortByKeyResults(a, copySliceToKeys(a[KeyMember]), begin, end)

binByMemberResults(a, nbin, create_data_only, begin, end) ==
    binByKeyResults(a, copySliceToKeys(a[KeyMember]), nbin, create_data_only,
                    begin, end)

binByCartesianGrid3dResults(a, g, create_data_only, begin, end) ==
    LET position == a[0]
        ks == [i \in DOMAIN position |-> position[i]]
        nbin == [d \in 1 .. 3 |-> int_cast(g.max[d] - g.min[d], g.dx[d])]
        comp == BinOp3D(nbin, g.min, g.max, 0)
    IN {[aosoa |-> r.aosoa, data |-> CartesianGrid3dBinningData(r.data, nbin)] :
          r \in kokkosBinSortResults(a, ks, comp, create_data_only, FALSE,
                                     begin, end)}

\* C21: when a sortByMember or binByMember call is complete, the keys it
\* used are the values member M had before the call, although member M has
\* been reordered since, and the collection and the BinningData are a result
\* of sortByKey or binByKey on the collection as it was before the call with
\* those values as the explicit key view.
C21_MemberCallIsKeyCall ==
    Completed =>
        /\ dev.slice_keys = pre[KeyMember]
        /\ [aosoa |-> aosoa, data |-> bin_data] \in
              IF call.op = "sortByMember"
              THEN sortByKeyResults(pre, pre[KeyMember], call.begin, call.end)
              ELSE binByKeyResults(pre, pre[KeyMember], call.nbin,
                                   call.create_data_only, call.begin, call.end)

\* The key member was reordered by the call and the snapshot was not.
C21_Witness ==
    /\ Completed
    /\ ~call.create_data_only
    /\ RangeLen >= 2
    /\ aosoa[KeyMember] # pre[KeyMember]
    /\ dev.slice_keys # aosoa[KeyMember]
    /\ \E p \in 0 .. (RangeLen - 2) :
          permutation(bin_data, p) > permutation(bin_data, p + 1)


\* C22 as stated: what a whole-collection overload returns and leaves in the
\* collection is something the sub-range overload of its family returns and
\* leaves when called on the same collection and arguments with begin = 0
\* and end = aosoa.size().  The sort operations return nothing: for them only
\* the collection is compared.
C22_WholeIsSubRange ==
    Returned =>
        LET n == size(pre)
            bins == [aosoa |-> aosoa, data |-> bin_data]
            cells == [aosoa |-> aosoa, data |-> grid_data]
        IN /\ call.op = "sortByKeyWithComparatorWhole" =>
                \E r \in sortByKeyWithComparatorResults(pre, call.keys, call.comp, 0, n) :
                    aosoa = r.aosoa
           /\ call.op = "binByKeyWithComparatorWhole" =>
                bins \in binByKeyWithComparatorResults(pre, call.keys, call.comp,
                                                       call.create_data_only, 0, n)
           /\ call.op = "sortByKeyWhole" =>
                \E r \in sortByKeyResults(pre, call.keys, 0, n) : aosoa = r.aosoa
           /\ call.op = "binByKeyWhole" =>
                bins \in binByKeyResults(pre, call.keys, call.nbin,
                                         call.create_data_only, 0, n)
           /\ call.op = "sortByMemberWhole" =>
                \E r \in sortByMemberResults(pre, 0, n) : aosoa = r.aosoa
           /\ call.op = "binByMemberWhole" =>
                bins \in binByMemberResults(pre, call.nbin, call.create_data_only, 0, n)
           /\ call.op = "binByCartesianGrid3dWhole" =>
                cells \in binByCartesianGrid3dResults(pre, grid,
                                                      call.create_data_only, 0, n)

\* C23: for the operations that take create_data_only, a call with the
\* other value of create_data_only on the same collection, keys, comparator
\* and range returns the same bin counts and offsets, whatever the order of
\* its binning loop, and the same permutation when the loop bodies claim
\* their slots in the same order; in both modes permutation(p) is the index
\* before the call of a particle whose bin holds slot p: of the particle now
\* at begin + p if the members were reordered, of a particle that is still at
\* that index if they were not.
\* The order in which the loop bodies claimed the slots of their bins.
SlotOrder == [n \in 1 .. RangeLen |-> permutation(bin_data, n - 1) - call.begin]
IndexOrder == [n \in 1 .. RangeLen |-> n - 1]

OtherMode(sched) ==
    kokkosBinSort(pre, call.keys, call.comp, ~call.create_data_only,
                  call.sort_within_bins, call.begin, call.end, sched)

C23_DataOnlySameMetadata ==
    (Returned /\ call.op \in DataOnlyOps) =>
        /\ OtherMode(SlotOrder).data = bin_data
        /\ LET other == OtherMode(IndexOrder).data
           IN /\ numBin(other) = numBin(bin_data)
              /\ other.counts = bin_data.counts
              /\ other.offsets = bin_data.offsets
        /\ \A p \in 0 .. (RangeLen - 1) :
              LET old == permutation(bin_data, p)
                  b == AssignedBin(old)
              IN /\ InRange(old)
                 /\ binOffset(bin_data, b) <= p
                 /\ p < binOffset(bin_data, b) + binSize(bin_data, b)
                 /\ \A m \in Members :
                       pre[m][old] = IF call.create_data_only
                                     THEN aosoa[m][old]
                                     ELSE aosoa[m][call.begin + p]

\* A data-only call on a sub-range whose permutation is not the identity and
\* whose bins are of different sizes.
C23_Witness ==
    /\ Returned
    /\ call.op \in DataOnlyOps
    /\ call.create_data_only
    /\ call.begin > 0
    /\ aosoa = pre
    /\ \E p \in 0 .. (RangeLen - 1) : permutation(bin_data, p) # call.begin + p
    /\ \E b, c \in 0 .. (numBin(bin_data) - 1) :
          binSize(bin_data, b) = 0 /\ binSize(bin_data, c) >= 1

\* C24: after sortByKey or binByKey the caller's key view holds at every
\* index the value it held before the call, whether the call returned or not;
\* when the members were reordered, keys(p) is therefore the key of the
\* particle that was at index p before the call, and the key of the particle
\* now at begin + p is keys(permutation(p)).
ExplicitKeyOps == {"sortByKey", "sortByKeyWhole", "binByKey", "binByKeyWhole"}

C24_KeysNotModified ==
    (pc # "idle" /\ call.op \in ExplicitKeyOps) =>
        /\ DOMAIN keys = DOMAIN call.keys
        /\ \A i \in DOMAIN keys : keys[i] = call.keys[i]
        /\ (Returned /\ ~call.create_data_only) =>
              \A p \in 0 .. (RangeLen - 1) :
                  /\ OldIndexOf(call.begin + p) = permutation(bin_data, p)
                  /\ KeyNowAt(call.begin + p) = keys[permutation(bin_data, p)]

\* The particles were reordered, and the key view no longer lines up with them.
C24_Witness ==
    /\ Returned
    /\ call.op \in ExplicitKeyOps
    /\ ~call.create_data_only
    /\ aosoa # pre
    /\ \E p \in call.begin .. (call.end - 1) : keys[p] # KeyNowAt(p)
    /\ \E p \in call.begin .. (call.end - 1) : keys[p] = KeyNowAt(p) /\ OldIndexOf(p) # p

\* C25: after sortByMember has returned, whatever a second sortByMember on
\* the same range returns, it leaves member M with the value it has now at
\* every position (the other members may move where keys are equal).
SecondCall == sortByMemberResults(aosoa, call.begin, call.end)

C25_SortByMemberIdempotent ==
    (Returned /\ call.op \in {"sortByMember", "sortByMemberWhole"}) =>
        \A r \in SecondCall :
            \A p \in DOMAIN aosoa[KeyMember] :
                r.aosoa[KeyMember][p] = aosoa[KeyMember][p]

\* The first call reordered the collection; a second call can return, and
\* can move particles of equal key.
C25_Witness ==
    /\ Returned
    /\ call.op \in {"sortByMember", "sortByMemberWhole"}
    /\ RangeLen >= 3
    /\ aosoa[KeyMember] # pre[KeyMember]
    /\ \E p, q \in call.begin .. (call.end - 1) :
          aosoa[KeyMember][p] # aosoa[KeyMember][q]
    /\ \E r \in SecondCall : r.aosoa # aosoa
====
